---- MODULE Spec2Model ----
(***************************************************************************)
(* Model of dcm_tools/diff.py: the structural diff of two DICOM headers.   *)
(*                                                                         *)
(* Python objects are records carrying their Python type:                  *)
(*   None                 [type |-> "NoneType"]                            *)
(*   str                  [type |-> "str", s |-> "..."]                    *)
(*   pydicom Sequence     [type |-> "Sequence", items |-> <<Dataset...>>]  *)
(*   pydicom Dataset      [type |-> "Dataset", elems |-> <<DataElement>>]  *)
(* A DataElement is [tag |-> BaseTag (an int), value |-> object]; the      *)
(* order of elems is the iteration order of Dataset.keys().                *)
(* The box-drawing prefixes of the source are written by code point,       *)
(* "U+250C" (down and right), "U+251C" (vertical and right) and "U+2514"   *)
(* (up and right).                                                         *)
(***************************************************************************)
EXTENDS Integers, Sequences, FiniteSets, TLC

VARIABLES
    dcm_l, dcm_r,       \* main: the two headers read from the files
    diffs,              \* main: the outcome of diff(dcm_l, dcm_r)
    diffs_swapped,      \* the outcome of the run with the files exchanged
    args,               \* main: the parsed command line
    stdout,             \* the lines printed so far
    arg_str, arg_len,   \* the arguments of a call of format_str_len
    formatted           \* what that call returned

vars == <<dcm_l, dcm_r, diffs, diffs_swapped, args, stdout, arg_str, arg_len, formatted>>

(***************************************************************************)
(* Bounds of the model.                                                    *)
(***************************************************************************)
\* nodes (data elements plus sequence items) of two headers together
MaxSize == 5
\* nodes of the items of two sequences together
MaxItemNodes == 5
\* nodes of the items of two sequences that lie inside an item each
MaxDeepNodes == 3

(***************************************************************************)
(* Python values.                                                          *)
(***************************************************************************)
None == [type |-> "NoneType"]

Str(s) == [type |-> "str", s |-> s]

Sequence(items) == [type |-> "Sequence", items |-> items]

Dataset(elems) == [type |-> "Dataset", elems |-> elems]

DataElement(tag, value) == [tag |-> tag, value |-> value]

\* the scalar element values of the model: an empty value (pydicom reads a
\* zero-length element of a non-text VR as None) and two strings; each is
\* equal to itself under ==
Scalars == {None, Str("x"), Str("y")}

\* the tags (BaseTag, an int) of one tree level
Tags == {1, 2}

PLACEHOLDER == Str("-----")

PREFIX_HEADER == Str("U+250C")

PREFIX_MIDDLE == Str("U+251C")

PREFIX_LAST == Str("U+2514")

(***************************************************************************)
(* The headers main can read: every Dataset over Tags, in every iteration  *)
(* order of its keys, whose values are scalars or Sequences of Datasets.   *)
(***************************************************************************)
RECURSIVE DatasetsOfSize(_), ItemListsOfSize(_), ElemListsOfSize(_, _)

\* the lists of sequence items of n nodes: each item is one node plus its own
ItemListsOfSize(n) ==
    IF n = 0 THEN {<<>>}
    ELSE UNION {{<<item>> \o rest : item \in DatasetsOfSize(k),
                                    rest \in ItemListsOfSize(n - 1 - k)}
                : k \in 0..(n - 1)}

\* the values of a data element of n nodes (n >= 1), the element included
ValuesOfSize(n) ==
    (IF n = 1 THEN Scalars ELSE {})
        \cup {Sequence(items) : items \in ItemListsOfSize(n - 1)}

\* the lists of data elements with distinct tags from T, of n nodes
ElemListsOfSize(T, n) ==
    IF n = 0 THEN {<<>>}
    ELSE UNION {{<<DataElement(ta[1], value)>> \o rest :
                    value \in ValuesOfSize(ta[2]),
                    rest \in ElemListsOfSize(T \ {ta[1]}, n - ta[2])}
                : ta \in T \X (1..n)}

DatasetsOfSize(n) == {Dataset(elems) : elems \in ElemListsOfSize(Tags, n)}

\* the headers of n nodes
Headers == [n \in 0..MaxSize |-> DatasetsOfSize(n)]

\* the item lists of n nodes
ItemLists == [n \in 0..MaxItemNodes |-> ItemListsOfSize(n)]

(***************************************************************************)
(* class Diff and the result of a call of diff.                            *)
(***************************************************************************)
Diff(diff_type, tag, description, value_l, value_r, prefix) ==
    [diff_type |-> diff_type, tag |-> tag, description |-> description,
     value_l |-> value_l, value_r |-> value_r, prefix |-> prefix]

\* a call that returned the list _diffs
Return(_diffs) == [status |-> "returned", exc |-> "", diffs |-> _diffs]

\* a call that ended in the exception exc: nothing is returned
Raise(exc) == [status |-> "raised", exc |-> exc, diffs |-> <<>>]

\* a call main has not made yet
Pending == [status |-> "pending", exc |-> "", diffs |-> <<>>]

(***************************************************************************)
(* Builtins and pydicom accessors used by diff.                            *)
(***************************************************************************)
\* list(dcm.keys())
keys(dcm) == [k \in 1..Len(dcm.elems) |-> dcm.elems[k].tag]

\* dcm[tag]
GetItem(dcm, tag) ==
    dcm.elems[CHOOSE k \in 1..Len(dcm.elems) : dcm.elems[k].tag = tag]

\* x in list
InList(x, list) == \E k \in 1..Len(list) : list[k] = x

\* elem.description(): pydicom looks the description up by the tag
description(elem) == "Desc" \o ToString(elem.tag)

\* len(value) is defined for a Sequence and a str, a TypeError for None
HasLen(value) == value.type \in {"Sequence", "str"}

len(value) == IF value.type = "Sequence" THEN Len(value.items) ELSE Len(value.s)

\* value[i]: the item of a Sequence, the one-character str of a str (the
\* strings of Scalars have one character, so that s[0] is s)
Index(value, i) ==
    IF value.type = "Sequence" THEN value.items[i + 1] ELSE Str(value.s)

\* max that gives the smaller number
max_Smaller(a, b) == IF a <= b THEN a ELSE b

max(a, b) == IF a >= b THEN a ELSE b

RECURSIVE sorted(_)

\* sorted(set): ascending
sorted(S) ==
    IF S = {} THEN <<>>
    ELSE LET m == CHOOSE x \in S : \A y \in S : x <= y
         IN  <<m>> \o sorted(S \ {m})

(***************************************************************************)
(* diff (diff.py:58-107).                                                  *)
(***************************************************************************)
\* the tags in the order of tags_l + tags_r, without sorted()
SortedTags_Unsorted(tags_l, tags_r) ==
    tags_l \o SelectSeq(tags_r, LAMBDA t : \A k \in 1..Len(tags_l) : tags_l[k] # t)

\* sorted(set(tags_l + tags_r)): the order of the outer loop
SortedTags(tags_l, tags_r) ==
    sorted({tags_l[k] : k \in 1..Len(tags_l)} \cup {tags_r[k] : k \in 1..Len(tags_r)})

\* MissingL without the case of a Sequence value
MissingL_NoPlaceholder(tag, elem) ==
    Diff("MISSING_L", tag, description(elem), None, elem.value, None)

\* the record for a tag that is not in tags_l; elem is dcm_r[tag]
MissingL(tag, elem) ==
    IF elem.value.type = "Sequence"
    THEN Diff("MISSING_L", tag,
              "[" \o ToString(len(elem.value)) \o "] " \o description(elem),
              None, PLACEHOLDER, None)
    ELSE Diff("MISSING_L", tag, description(elem), None, elem.value, None)

\* MissingR with the two values on the wrong sides
MissingR_ValuesExchanged(tag, elem) ==
    IF elem.value.type = "Sequence"
    THEN Diff("MISSING_R", tag,
              "[" \o ToString(len(elem.value)) \o "] " \o description(elem),
              None, PLACEHOLDER, None)
    ELSE Diff("MISSING_R", tag, description(elem), None, elem.value, None)

\* the record for a tag that is not in tags_r; elem is dcm_l[tag]
MissingR(tag, elem) ==
    IF elem.value.type = "Sequence"
    THEN Diff("MISSING_R", tag,
              "[" \o ToString(len(elem.value)) \o "] " \o description(elem),
              PLACEHOLDER, None, None)
    ELSE Diff("MISSING_R", tag, description(elem), elem.value, None, None)

\* the record for an index i past the end of the left sequence
ItemMissingL(tag, elem_l, i) ==
    Diff("MISSING_L", tag, description(elem_l) \o " [" \o ToString(i) \o "]",
         None, PLACEHOLDER, None)

\* ItemMissingR labelled with the length of the right sequence minus one,
\* as in the test of line 90, instead of the index
ItemMissingR_WrongIndex(tag, elem_l, i) ==
    Diff("MISSING_R", tag, description(elem_l) \o " [" \o ToString(i - 1) \o "]",
         PLACEHOLDER, None, None)

\* the record for an index i past the end of the right sequence
ItemMissingR(tag, elem_l, i) ==
    Diff("MISSING_R", tag, description(elem_l) \o " [" \o ToString(i) \o "]",
         PLACEHOLDER, None, None)

\* the header of the item i whose nested diff is not empty
Header(tag, elem_l, i) ==
    Diff("DIFFERENT", tag, "[" \o ToString(i) \o "] " \o description(elem_l),
         PLACEHOLDER, PLACEHOLDER, PREFIX_HEADER)

\* Restamp comparing the index with len(_diffs) instead of len(_diffs) - 1
Restamp_OffByOne(_diffs) ==
    [k \in 1..Len(_diffs) |->
        [_diffs[k] EXCEPT !.prefix = IF k - 1 = Len(_diffs) THEN PREFIX_LAST
                                     ELSE PREFIX_MIDDLE]]

\* for i, _diff in enumerate(_diffs): _diff.prefix = ...
Restamp(_diffs) ==
    [k \in 1..Len(_diffs) |->
        [_diffs[k] EXCEPT !.prefix = IF k - 1 = Len(_diffs) - 1 THEN PREFIX_LAST
                                     ELSE PREFIX_MIDDLE]]

\* the variable i after the body of the index loop for item i: the loop
\* for i, _diff in enumerate(_diffs) binds the same name once for each record
Rebound(i, _diffs) == IF Len(_diffs) = 0 THEN i ELSE Len(_diffs) - 1

\* the index that range() gives the loop after index `index`: the next one,
\* whatever the body left in the variable i
NextIndex(index, i) == index + 1

\* ItemDiffs with the header made after the re-stamping loop, from the i that
\* the loop left
ItemDiffs_HeaderAfterRestamp(tag, elem_l, i, _diffs) ==
    IF Len(_diffs) = 0 THEN <<>>
    ELSE <<Header(tag, elem_l, Rebound(i, _diffs))>> \o Restamp(_diffs)

\* ItemDiffs without the continue for an empty _diffs
ItemDiffs_NoContinue(tag, elem_l, i, _diffs) ==
    <<Header(tag, elem_l, i)>> \o Restamp(_diffs)

\* what the item i adds to diffs when both sequences have it; _diffs is the
\* list diff returned for the two items
ItemDiffs(tag, elem_l, i, _diffs) ==
    IF Len(_diffs) = 0 THEN <<>>
    ELSE <<Header(tag, elem_l, i)>> \o Restamp(_diffs)

\* Different with the placeholder of the sequence records in place of the values
Different_Placeholders(tag, elem_l, elem_r) ==
    Diff("DIFFERENT", tag, description(elem_l), PLACEHOLDER, PLACEHOLDER, None)

\* the record for two unequal values of a tag
Different(tag, elem_l, elem_r) ==
    Diff("DIFFERENT", tag, description(elem_l), elem_l.value, elem_r.value, None)

\* Eq with an empty value never equal to anything
Eq_TruthyOnly(value_l, value_r) == value_l # None /\ value_l = value_r

\* elem_l.value == elem_r.value: None, str and Sequence compare by content, and
\* objects of different types are unequal
Eq(value_l, value_r) == value_l = value_r

RECURSIVE diff(_, _), ForTag(_, _, _, _, _), ForIndex(_, _, _, _, _)

\* for i in range(max(len(elem_l.value), len(elem_r.value))), from index i on;
\* acc is diffs so far
ForIndex(tag, elem_l, elem_r, i, acc) ==
    IF i >= max(len(elem_l.value), len(elem_r.value)) THEN Return(acc)
    ELSE IF i > len(elem_l.value) - 1
         THEN ForIndex(tag, elem_l, elem_r, i + 1, Append(acc, ItemMissingL(tag, elem_l, i)))
    ELSE IF i > len(elem_r.value) - 1
         THEN ForIndex(tag, elem_l, elem_r, i + 1, Append(acc, ItemMissingR(tag, elem_l, i)))
    ELSE LET _diffs == diff(Index(elem_l.value, i), Index(elem_r.value, i))
         IN  IF _diffs.status = "raised" THEN _diffs
             ELSE ForIndex(tag, elem_l, elem_r,
                           NextIndex(i, Rebound(i, _diffs.diffs)),
                           acc \o ItemDiffs(tag, elem_l, i, _diffs.diffs))

\* for tag in sorted(tags), from the k-th tag on; l and r are dcm_l and dcm_r
\* of the call, acc is diffs so far
ForTag(l, r, tags, k, acc) ==
    IF k > Len(tags) THEN Return(acc)
    ELSE LET tag == tags[k]
         IN  IF ~InList(tag, keys(l))
             THEN ForTag(l, r, tags, k + 1,
                         Append(acc, MissingL(tag, GetItem(r, tag))))
             ELSE IF ~InList(tag, keys(r))
             THEN ForTag(l, r, tags, k + 1,
                         Append(acc, MissingR(tag, GetItem(l, tag))))
             ELSE LET elem_l == GetItem(l, tag)
                      elem_r == GetItem(r, tag)
                  IN  IF elem_l.value.type = "Sequence"
                      THEN IF ~HasLen(elem_r.value) THEN Raise("TypeError")
                           ELSE LET items == ForIndex(tag, elem_l, elem_r, 0, acc)
                                IN  IF items.status = "raised" THEN items
                                    ELSE ForTag(l, r, tags, k + 1, items.diffs)
                      ELSE IF Eq(elem_l.value, elem_r.value)
                      THEN ForTag(l, r, tags, k + 1, acc)
                      ELSE ForTag(l, r, tags, k + 1,
                                  Append(acc, Different(tag, elem_l, elem_r)))

\* diff(dcm_l, dcm_r); keys() of an object that is no Dataset is an AttributeError
diff(l, r) ==
    IF l.type # "Dataset" \/ r.type # "Dataset" THEN Raise("AttributeError")
    ELSE ForTag(l, r, SortedTags(keys(l), keys(r)), 1, <<>>)

(***************************************************************************)
(* The chain of calls of diff.  CallDepth(l, r) is the number of calls of  *)
(* diff that are active at once, at most, while diff(l, r) runs, the call  *)
(* itself included; a loop counts the calls it makes until an exception    *)
(* ends it.                                                                *)
(***************************************************************************)
\* what a loop adds: the deepest chain below it, and whether it raised
Calls(depth, raised) == [depth |-> depth, raised |-> raised]

RECURSIVE CallDepth(_, _), DepthForTag(_, _, _, _), DepthForIndex(_, _, _)
RECURSIVE DepthForIndex_EqualLengthsOnly(_, _, _)

\* DepthForIndex that compares the items only of sequences of equal length
DepthForIndex_EqualLengthsOnly(elem_l, elem_r, i) ==
    IF i >= len(elem_l.value) \/ len(elem_l.value) # len(elem_r.value)
    THEN Calls(0, FALSE)
    ELSE LET item_l == Index(elem_l.value, i)
             item_r == Index(elem_r.value, i)
         IN  IF diff(item_l, item_r).status = "raised"
             THEN Calls(CallDepth(item_l, item_r), TRUE)
             ELSE LET rest == DepthForIndex_EqualLengthsOnly(elem_l, elem_r, i + 1)
                  IN  Calls(max(CallDepth(item_l, item_r), rest.depth), rest.raised)

\* the calls of line 93 for the indices from i on
DepthForIndex(elem_l, elem_r, i) ==
    IF i >= max(len(elem_l.value), len(elem_r.value)) THEN Calls(0, FALSE)
    ELSE IF i > len(elem_l.value) - 1 \/ i > len(elem_r.value) - 1
         THEN DepthForIndex(elem_l, elem_r, i + 1)
    ELSE LET item_l == Index(elem_l.value, i)
             item_r == Index(elem_r.value, i)
         IN  IF diff(item_l, item_r).status = "raised"
             THEN Calls(CallDepth(item_l, item_r), TRUE)
             ELSE LET rest == DepthForIndex(elem_l, elem_r, i + 1)
                  IN  Calls(max(CallDepth(item_l, item_r), rest.depth), rest.raised)

\* the calls below the loop over the tags, from the k-th tag on
DepthForTag(l, r, tags, k) ==
    IF k > Len(tags) THEN Calls(0, FALSE)
    ELSE LET tag == tags[k]
         IN  IF ~InList(tag, keys(l)) \/ ~InList(tag, keys(r))
             THEN DepthForTag(l, r, tags, k + 1)
             ELSE LET elem_l == GetItem(l, tag)
                      elem_r == GetItem(r, tag)
                  IN  IF elem_l.value.type = "Sequence"
                      THEN IF ~HasLen(elem_r.value) THEN Calls(0, TRUE)
                           ELSE LET items == DepthForIndex(elem_l, elem_r, 0)
                                    rest  == DepthForTag(l, r, tags, k + 1)
                                IN  IF items.raised THEN items
                                    ELSE Calls(max(items.depth, rest.depth), rest.raised)
                      ELSE DepthForTag(l, r, tags, k + 1)

CallDepth(l, r) ==
    IF l.type # "Dataset" \/ r.type # "Dataset" THEN 1
    ELSE 1 + DepthForTag(l, r, SortedTags(keys(l), keys(r)), 1).depth

(***************************************************************************)
(* The program: main reads two headers and calls diff on them; a second    *)
(* run of the command, with the two files exchanged, is kept beside the    *)
(* first.  The two files are any two headers of at most MaxSize nodes      *)
(* together, or one header of at most MaxSize nodes given twice, or two    *)
(* headers with a Sequence each under one tag, whose items have at most    *)
(* MaxItemNodes nodes together, or two headers with one item each under    *)
(* one tag that holds such a Sequence, of at most MaxDeepNodes nodes.       *)
(***************************************************************************)
\* the header whose one element is a Sequence of these items
OneSequence(tag, items) == Dataset(<<DataElement(tag, Sequence(items))>>)

\* the command line when no width is given
DefaultArgs == [len_col_tag |-> 50, len_col_val |-> 70]

\* nothing is printed and format_str_len is not called
Silent ==
    /\ args = DefaultArgs
    /\ stdout = <<>>
    /\ arg_str = ""
    /\ arg_len = 0
    /\ formatted = None

Init ==
    /\ \/ \E n \in 0..MaxSize : \E m \in 0..(MaxSize - n) :
             dcm_l \in Headers[n] /\ dcm_r \in Headers[m]
       \/ \E n \in 0..MaxSize :
             dcm_l \in Headers[n] /\ dcm_r = dcm_l
       \/ \E t \in Tags : \E n \in 0..MaxItemNodes : \E m \in 0..(MaxItemNodes - n) :
             \E items_l \in ItemLists[n] : \E items_r \in ItemLists[m] :
                /\ dcm_l = Dataset(<<DataElement(t, Sequence(items_l))>>)
                /\ dcm_r = Dataset(<<DataElement(t, Sequence(items_r))>>)
       \/ \E t, u \in Tags : \E n \in 0..MaxDeepNodes : \E m \in 0..(MaxDeepNodes - n) :
             \E items_l \in ItemLists[n] : \E items_r \in ItemLists[m] :
                /\ dcm_l = OneSequence(t, <<OneSequence(u, items_l)>>)
                /\ dcm_r = OneSequence(t, <<OneSequence(u, items_r)>>)
    /\ diffs = Pending
    /\ diffs_swapped = Pending
    /\ Silent

\* main(file_left, file_right): diffs = diff(dcm_l, dcm_r)
Main ==
    /\ diffs.status = "pending"
    /\ diffs' = diff(dcm_l, dcm_r)
    /\ UNCHANGED <<dcm_l, dcm_r, diffs_swapped, args, stdout, arg_str, arg_len, formatted>>

\* main(file_right, file_left), run after the first
MainSwapped ==
    /\ diffs.status # "pending"
    /\ diffs_swapped.status = "pending"
    /\ diffs_swapped' = diff(dcm_r, dcm_l)
    /\ UNCHANGED <<dcm_l, dcm_r, diffs, args, stdout, arg_str, arg_len, formatted>>

Next == Main \/ MainSwapped

Spec == Init /\ [][Next]_vars

(***************************************************************************)
(* Vocabulary of the properties.                                           *)
(***************************************************************************)
\* the tags of a Dataset
TagSet(dcm) == {dcm.elems[k].tag : k \in 1..Len(dcm.elems)}

IsSequence(value) == value.type = "Sequence"

Min(a, b) == IF a <= b THEN a ELSE b

\* the tags that hold a Sequence in one of the two Datasets and a scalar in
\* the other
MixedTags(l, r) ==
    {t \in TagSet(l) \cap TagSet(r) :
        IsSequence(GetItem(l, t).value) # IsSequence(GetItem(r, t).value)}

RECURSIVE TypeMismatch(_, _)

\* diff(l, r) meets a tag of mixed type: in l and r, or in two items that it
\* compares
TypeMismatch(l, r) ==
    \/ MixedTags(l, r) # {}
    \/ \E t \in TagSet(l) \cap TagSet(r) :
          LET vl == GetItem(l, t).value
              vr == GetItem(r, t).value
          IN  /\ IsSequence(vl) /\ IsSequence(vr)
              /\ \E i \in 1..Min(Len(vl.items), Len(vr.items)) :
                    TypeMismatch(vl.items[i], vr.items[i])

\* a record of a nested call, as the enclosing call re-stamps it
IsNested(d) == d.prefix \in {PREFIX_MIDDLE, PREFIX_LAST}

\* the positions of the records that the call returning out emitted itself
DirectAt(out) == {k \in 1..Len(out) : ~IsNested(out[k])}

\* the position of the direct record that the record at position k belongs to
\* (k itself for a direct record, the header above it for a nested one); 0 if
\* there is none
OwnerAt(out, k) ==
    LET before == {j \in DirectAt(out) : j <= k}
    IN  IF before = {} THEN 0 ELSE CHOOSE j \in before : \A i \in before : i <= j

RECURSIVE Ascending(_)

Ascending(S) ==
    IF S = {} THEN <<>>
    ELSE LET m == CHOOSE x \in S : \A y \in S : x <= y
         IN  <<m>> \o Ascending(S \ {m})

\* the records of out at the positions P, in the order of out
At(out, P) == LET idx == Ascending(P) IN [j \in 1..Len(idx) |-> out[idx[j]]]

\* the records that the call returning out emitted for tag, the nested ones
\* under its headers included
RecordsOf(out, tag) ==
    At(out, {k \in 1..Len(out) : OwnerAt(out, k) # 0 /\ out[OwnerAt(out, k)].tag = tag})

\* both runs of the command are over
BothRun == diffs.status # "pending" /\ diffs_swapped.status # "pending"

(***************************************************************************)
(* Printing.  A text is a string; a character outside ASCII is written as  *)
(* one ASCII character that stands for it, so that the length of a text is *)
(* the number of characters of the Python str:                             *)
(*   "#" U+2260 (not equal)        "|" U+2502 (light vertical)             *)
(*   "-" U+2500 (light horizontal) "+" U+253C (vertical and horizontal)    *)
(*   "/" U+250C   "=" U+251C   "\" U+2514  (the three prefixes)           *)
(***************************************************************************)
\* characters of the texts that format_str_len is called with
MaxStrLen == 5
\* widths that format_str_len is called with
MaxWidth == 6
\* nodes of the two headers of a run that prints
MaxPrintSize == 3

\* the one character a str of one character outside ASCII is shown as
Glyph(s) ==
    CASE s = "U+250C" -> "/"
      [] s = "U+251C" -> "="
      [] s = "U+2514" -> "\\"
      [] OTHER -> s

RECURSIVE Repeat(_, _)

\* c * n
Repeat(c, n) == IF n <= 0 THEN "" ELSE c \o Repeat(c, n - 1)

\* _str[:stop]: the characters before stop, counted from the end when stop is
\* negative
SliceTo(_str, stop) ==
    IF stop >= 0
    THEN IF stop >= Len(_str) THEN _str ELSE SubSeq(_str, 1, stop)
    ELSE SubSeq(_str, 1, max(Len(_str) + stop, 0))

\* f"{_str:>{_len}}": spaces in front up to _len characters, never a cut
RightAlign(_str, _len) == Repeat(" ", _len - Len(_str)) \o _str

format_str_len(_str, _len) ==
    RightAlign(IF Len(_str) < _len THEN _str ELSE SliceTo(_str, _len - 3) \o "...",
               _len)

color_by_diff(diff_type) ==
    CASE diff_type = "DIFFERENT" -> "yellow"
      [] diff_type = "MISSING_L" -> "magenta"
      [] diff_type = "MISSING_R" -> "cyan"

symbol_by_diff(diff_type) ==
    CASE diff_type = "DIFFERENT" -> "#"
      [] diff_type = "MISSING_L" -> "<"
      [] diff_type = "MISSING_R" -> ">"

\* colored(text, color): text between the escape codes of color, which a
\* terminal shows as text
colored(_text, color) == [text |-> _text, color |-> color]

\* a str printed as it is
Uncolored(_text) == [text |-> _text, color |-> "default"]

\* str(tag) of a BaseTag: group and element in four hexadecimal digits each
TagStr(tag) == "(0000, 000" \o ToString(tag) \o ")"

\* str(value) of a value that is not None
ValueStr(value) == value.s

\* Diff.__str__(self, max_len_tag, max_len_val)
DiffStr(self, max_len_tag, max_len_val) ==
    LET _prefix == IF self.prefix # None /\ self.prefix.s # ""
                   THEN symbol_by_diff(self.diff_type) \o " " \o Glyph(self.prefix.s)
                   ELSE symbol_by_diff(self.diff_type)
        _max_len_desc == IF self.prefix # None /\ self.prefix.s # ""
                         THEN max_len_tag - 15 - 2
                         ELSE max_len_tag - 15
        str_l == IF self.value_l # None THEN ValueStr(self.value_l) ELSE "NULL"
        str_r == IF self.value_r # None THEN ValueStr(self.value_r) ELSE "NULL"
    IN  colored(_prefix \o " " \o format_str_len(self.description, _max_len_desc)
                    \o " - " \o TagStr(self.tag)
                    \o " | " \o format_str_len(str_l, max_len_val)
                    \o " | " \o format_str_len(str_r, max_len_val),
                color_by_diff(self.diff_type))

\* str(_diff): __str__ with the defaults of its two parameters
str(_diff) == DiffStr(_diff, 50, 70)

\* the line of the column titles
TitleLine(_args) ==
    Uncolored("  " \o RightAlign("Tag", _args.len_col_tag)
                   \o " | " \o RightAlign("Left", _args.len_col_val)
                   \o " | " \o RightAlign("Right", _args.len_col_val))

\* the line under the column titles
RuleLine(_args) ==
    Uncolored("--" \o Repeat("-", _args.len_col_tag)
                   \o "-+-" \o Repeat("-", _args.len_col_val)
                   \o "-+-" \o Repeat("-", _args.len_col_val))

\* the widths a caller gives for the tag column and for the value columns
LenColTags == {20, DefaultArgs.len_col_tag}
LenColVals == {30, DefaultArgs.len_col_val}

\* no call of format_str_len on its own
NoCall == arg_str = "" /\ arg_len = 0 /\ formatted = None

(***************************************************************************)
(* main as a whole, with any of the widths, on two headers of at most      *)
(* MaxPrintSize nodes together, or with a Sequence each under one tag      *)
(* whose items have at most MaxDeepNodes nodes together, all of whose      *)
(* values print as str: diff, then the two header lines, then one line for *)
(* each record.  An exception of diff ends main before anything is         *)
(* printed.                                                                *)
(***************************************************************************)
InitPrint ==
    /\ \/ \E n \in 0..MaxPrintSize : \E m \in 0..(MaxPrintSize - n) :
             dcm_l \in Headers[n] /\ dcm_r \in Headers[m]
       \/ \E t \in Tags : \E n \in 0..MaxDeepNodes : \E m \in 0..(MaxDeepNodes - n) :
             \E items_l \in ItemLists[n] : \E items_r \in ItemLists[m] :
                /\ dcm_l = OneSequence(t, items_l)
                /\ dcm_r = OneSequence(t, items_r)
    /\ ~TypeMismatch(dcm_l, dcm_r)
    /\ args \in [len_col_tag : LenColTags, len_col_val : LenColVals]
    /\ diffs = Pending
    /\ diffs_swapped = Pending
    /\ stdout = <<>>
    /\ NoCall

\* main, the header: two print(_str)
PrintHeader ==
    /\ diffs.status = "returned"
    /\ stdout = <<>>
    /\ stdout' = <<TitleLine(args), RuleLine(args)>>
    /\ UNCHANGED <<dcm_l, dcm_r, diffs, diffs_swapped, args, arg_str, arg_len, formatted>>

\* main, one turn of the loop: print(str(_diff))
PrintDiff ==
    /\ diffs.status = "returned"
    /\ Len(stdout) >= 2
    /\ Len(stdout) - 2 < Len(diffs.diffs)
    /\ stdout' = Append(stdout, str(diffs.diffs[Len(stdout) - 1]))
    /\ UNCHANGED <<dcm_l, dcm_r, diffs, diffs_swapped, args, arg_str, arg_len, formatted>>

NextPrint == Main \/ PrintHeader \/ PrintDiff

SpecPrint == InitPrint /\ [][NextPrint]_vars

(***************************************************************************)
(* format_str_len on its own, called with any text of at most MaxStrLen    *)
(* characters and any width up to MaxWidth.                                *)
(***************************************************************************)
RECURSIVE TextsOfLen(_)

TextsOfLen(n) ==
    IF n = 0 THEN {""}
    ELSE {s \o c : s \in TextsOfLen(n - 1), c \in {"a", "."}}

InitFormat ==
    /\ \E n \in 0..MaxStrLen : arg_str \in TextsOfLen(n)
    /\ arg_len \in 0..MaxWidth
    /\ formatted = None
    /\ dcm_l = Dataset(<<>>)
    /\ dcm_r = Dataset(<<>>)
    /\ diffs = Pending
    /\ diffs_swapped = Pending
    /\ args = DefaultArgs
    /\ stdout = <<>>

\* formatted = format_str_len(arg_str, arg_len)
FormatStrLen ==
    /\ formatted = None
    /\ formatted' = Str(format_str_len(arg_str, arg_len))
    /\ UNCHANGED <<dcm_l, dcm_r, diffs, diffs_swapped, args, stdout, arg_str, arg_len>>

NextFormat == FormatStrLen

SpecFormat == InitFormat /\ [][NextFormat]_vars

(***************************************************************************)
(* C1.                                                                     *)
(***************************************************************************)
\* the diff_type of the mirrored record
Swapped(diff_type) ==
    CASE diff_type = "MISSING_L" -> "MISSING_R"
      [] diff_type = "MISSING_R" -> "MISSING_L"
      [] OTHER -> diff_type

\* C1: Symmetry.  diff(A,B) and diff(B,A) have the same length and the same
\* tag at every position; a Different record of one is a Different record of
\* the other with value_l and value_r exchanged, and a MissingLeft record of
\* one is a MissingRight record of the other with the values exchanged.
C1_Symmetry ==
    BothRun =>
        /\ diffs.status = diffs_swapped.status
        /\ Len(diffs.diffs) = Len(diffs_swapped.diffs)
        /\ \A k \in 1..Len(diffs.diffs) :
              LET d == diffs.diffs[k]
                  e == diffs_swapped.diffs[k]
              IN  /\ e.tag = d.tag
                  /\ e.diff_type = Swapped(d.diff_type)
                  /\ e.value_l = d.value_r
                  /\ e.value_r = d.value_l

\* the symmetry of C1 for two trees in which diff meets no tag of mixed type:
\* this holds, the mixed types are the only trees that break C1
SymmetryOfWellTypedTrees == ~TypeMismatch(dcm_l, dcm_r) => C1_Symmetry

(***************************************************************************)
(* C3.                                                                     *)
(***************************************************************************)
\* C3: Type mismatch.  When a tag of both trees holds a Sequence on one side
\* and a scalar on the other, diff ends in an error and returns no record.
C3_TypeMismatchIsAnError ==
    (diffs.status # "pending" /\ MixedTags(dcm_l, dcm_r) # {}) =>
        diffs.status = "raised"

(***************************************************************************)
(* C2.                                                                     *)
(***************************************************************************)
\* C2: Reflexivity.  diff(A, A) returns the empty list, for a tree A with
\* sequences nested to any depth.
C2_Reflexivity ==
    (diffs.status # "pending" /\ dcm_r = dcm_l) => diffs = Return(<<>>)

\* a header with a scalar inside an item of a sequence was compared with itself
C2_Witness ==
    /\ diffs.status # "pending"
    /\ dcm_r = dcm_l
    /\ \E k \in 1..Len(dcm_l.elems) :
          LET value == dcm_l.elems[k].value
          IN  /\ IsSequence(value)
              /\ \E i \in 1..Len(value.items) :
                    \E j \in 1..Len(value.items[i].elems) :
                        value.items[i].elems[j].value \in Scalars

(***************************************************************************)
(* C4.                                                                     *)
(***************************************************************************)
\* the null/non-null invariant of a record for its diff_type
ValuesFitType(d) ==
    /\ d.diff_type \in {"DIFFERENT", "MISSING_L", "MISSING_R"}
    /\ d.diff_type = "MISSING_L" => d.value_l = None /\ d.value_r # None
    /\ d.diff_type = "MISSING_R" => d.value_r = None /\ d.value_l # None

\* C4: Classification of one-sided tags.  A tag only in the right tree gets
\* exactly one record, MissingLeft with value_l null and value_r non-null; a
\* tag only in the left tree gets exactly one record, MissingRight with
\* value_r null and value_l non-null; every record of the output has one of
\* the three types and the null/non-null values of its type.
C4_OneSidedClassification ==
    diffs.status = "returned" =>
        /\ \A t \in TagSet(dcm_r) \ TagSet(dcm_l) :
              LET recs == RecordsOf(diffs.diffs, t)
              IN  Len(recs) = 1 /\ recs[1].diff_type = "MISSING_L"
        /\ \A t \in TagSet(dcm_l) \ TagSet(dcm_r) :
              LET recs == RecordsOf(diffs.diffs, t)
              IN  Len(recs) = 1 /\ recs[1].diff_type = "MISSING_R"
        /\ \A k \in 1..Len(diffs.diffs) : ValuesFitType(diffs.diffs[k])

(***************************************************************************)
(* C5.                                                                     *)
(***************************************************************************)
\* tree A (dcm_l) holds exactly one scalar element and tree B (dcm_r) is empty
OneScalarAgainstEmpty ==
    /\ Len(dcm_l.elems) = 1
    /\ ~IsSequence(dcm_l.elems[1].value)
    /\ Len(dcm_r.elems) = 0

\* out is one record of the type, tag and values given
IsTheOneRecord(out, diff_type, tag, value_l, value_r) ==
    /\ out.status = "returned"
    /\ Len(out.diffs) = 1
    /\ out.diffs[1].diff_type = diff_type
    /\ out.diffs[1].tag = tag
    /\ out.diffs[1].value_l = value_l
    /\ out.diffs[1].value_r = value_r

\* C5 as stated: with A = {t: v} and B = {}, diff(A,B) is one MissingLeft
\* record at t with value_l null and value_r = v, and diff(B,A) is one
\* MissingRight record at t with value_l = v and value_r null.
C5_AsStated ==
    OneScalarAgainstEmpty =>
        LET elem == dcm_l.elems[1]
        IN  /\ diffs.status # "pending" =>
                  IsTheOneRecord(diffs, "MISSING_L", elem.tag, None, elem.value)
            /\ diffs_swapped.status # "pending" =>
                  IsTheOneRecord(diffs_swapped, "MISSING_R", elem.tag, elem.value, None)

\* C5, amended: with A = {t: v} and B = {}, diff(A,B) is one MissingRight
\* record at t with value_l = v and value_r null, and diff(B,A) is one
\* MissingLeft record at t with value_l null and value_r = v.
C5_OneScalarAgainstEmpty ==
    OneScalarAgainstEmpty =>
        LET elem == dcm_l.elems[1]
        IN  /\ diffs.status # "pending" =>
                  IsTheOneRecord(diffs, "MISSING_R", elem.tag, elem.value, None)
            /\ diffs_swapped.status # "pending" =>
                  IsTheOneRecord(diffs_swapped, "MISSING_L", elem.tag, None, elem.value)

\* both runs are over for A = {t: "x"} and B = {}
C5_Witness ==
    /\ OneScalarAgainstEmpty
    /\ dcm_l.elems[1].value = Str("x")
    /\ BothRun

(***************************************************************************)
(* C6.                                                                     *)
(***************************************************************************)
\* the tags that hold a Sequence in l and are absent from r
SequenceOnlyIn(l, r) ==
    {t \in TagSet(l) \ TagSet(r) : IsSequence(GetItem(l, t).value)}

\* "[n] " + description
CountedDescription(elem, n) == "[" \o ToString(n) \o "] " \o description(elem)

\* C6: Placeholder on absence.  A tag that holds a Sequence of length n and is
\* present in exactly one tree gets exactly one record, the records of the
\* items' tags included: its description is "[n] " + description, the value on
\* the side of the sequence is "-----" and the value on the other side is null.
C6_PlaceholderOnAbsence ==
    diffs.status = "returned" =>
        /\ \A t \in SequenceOnlyIn(dcm_l, dcm_r) :
              LET elem == GetItem(dcm_l, t)
                  recs == RecordsOf(diffs.diffs, t)
              IN  /\ Len(recs) = 1
                  /\ recs[1].description = CountedDescription(elem, Len(elem.value.items))
                  /\ recs[1].value_l = PLACEHOLDER
                  /\ recs[1].value_r = None
        /\ \A t \in SequenceOnlyIn(dcm_r, dcm_l) :
              LET elem == GetItem(dcm_r, t)
                  recs == RecordsOf(diffs.diffs, t)
              IN  /\ Len(recs) = 1
                  /\ recs[1].description = CountedDescription(elem, Len(elem.value.items))
                  /\ recs[1].value_l = None
                  /\ recs[1].value_r = PLACEHOLDER

\* diff returned for a right tree with a one-sided Sequence of two items, the
\* first of which has an element of its own
C6_Witness ==
    /\ diffs.status = "returned"
    /\ \E t \in SequenceOnlyIn(dcm_r, dcm_l) :
          LET items == GetItem(dcm_r, t).value.items
          IN  Len(items) = 2 /\ Len(items[1].elems) >= 1

(***************************************************************************)
(* C7.                                                                     *)
(***************************************************************************)
RECURSIVE Canonical(_)

\* the Dataset with its elements, and those of every item below it, in
\* ascending order of their tags
Canonical(dcm) ==
    LET tags == Ascending(TagSet(dcm))
    IN  Dataset([k \in 1..Len(tags) |->
            LET elem == GetItem(dcm, tags[k])
            IN  DataElement(elem.tag,
                    IF IsSequence(elem.value)
                    THEN Sequence([i \in 1..Len(elem.value.items) |->
                                      Canonical(elem.value.items[i])])
                    ELSE elem.value)])

\* two trees with the same elements, whatever the order of their keys
Identical(l, r) == Canonical(l) = Canonical(r)

\* the tags that hold a Sequence in both trees
SequenceInBoth(l, r) ==
    {t \in TagSet(l) \cap TagSet(r) :
        IsSequence(GetItem(l, t).value) /\ IsSequence(GetItem(r, t).value)}

\* the indices, from 0, that both sequences of tag t have
SharedIndices(l, r, t) ==
    0..(Min(Len(GetItem(l, t).value.items), Len(GetItem(r, t).value.items)) - 1)

\* the item i, from 0, of the sequence of tag t
Item(dcm, t, i) == GetItem(dcm, t).value.items[i + 1]

\* "[i] " + description is the label of the header of item i
IsHeaderOf(d, elem, i) ==
    d.prefix = PREFIX_HEADER /\ d.description = CountedDescription(elem, i)

RECURSIVE SumOver(_, _)

\* the sum of f[i] over the i of S
SumOver(f, S) ==
    IF S = {} THEN 0
    ELSE LET i == CHOOSE x \in S : TRUE IN f[i] + SumOver(f, S \ {i})

\* C7: Elision of identical sequence items.  For a tag with a Sequence in both
\* trees, an index whose two items are identical adds no record: no header is
\* labelled with it, the records of the tag are those of the other indices
\* alone, and there is none if the sequences are pairwise identical.
C7_IdenticalItemsElided ==
    diffs.status = "returned" =>
        \A t \in SequenceInBoth(dcm_l, dcm_r) :
            LET recs == RecordsOf(diffs.diffs, t)
                shared == SharedIndices(dcm_l, dcm_r, t)
                len_l == Len(GetItem(dcm_l, t).value.items)
                len_r == Len(GetItem(dcm_r, t).value.items)
                same == {i \in shared : Identical(Item(dcm_l, t, i), Item(dcm_r, t, i))}
                added == [i \in shared \ same |->
                             1 + Len(diff(Item(dcm_l, t, i), Item(dcm_r, t, i)).diffs)]
            IN  /\ \A i \in same : \A k \in 1..Len(recs) :
                      ~IsHeaderOf(recs[k], GetItem(dcm_l, t), i)
                /\ Len(recs) = SumOver(added, shared \ same)
                                 + (max(len_l, len_r) - Min(len_l, len_r))
                /\ (len_l = len_r /\ same = shared) => Len(recs) = 0

\* diff returned for two sequences of a tag whose items at one index are
\* identical and not empty
C7_Witness ==
    /\ diffs.status = "returned"
    /\ \E t \in SequenceInBoth(dcm_l, dcm_r) : \E i \in SharedIndices(dcm_l, dcm_r, t) :
          /\ Identical(Item(dcm_l, t, i), Item(dcm_r, t, i))
          /\ Len(Item(dcm_l, t, i).elems) >= 1

(***************************************************************************)
(* C8.                                                                     *)
(***************************************************************************)
\* the records of one differing item as C8 states them: the header, then the
\* nested records in their order, the last with PREFIX_LAST and the others
\* with PREFIX_MIDDLE
HeaderAndNested(t, elem, i, nested) ==
    <<[diff_type |-> "DIFFERENT", tag |-> t,
       description |-> CountedDescription(elem, i),
       value_l |-> PLACEHOLDER, value_r |-> PLACEHOLDER, prefix |-> PREFIX_HEADER]>>
    \o [k \in 1..Len(nested) |->
           [diff_type |-> nested[k].diff_type, tag |-> nested[k].tag,
            description |-> nested[k].description,
            value_l |-> nested[k].value_l, value_r |-> nested[k].value_r,
            prefix |-> IF k < Len(nested) THEN PREFIX_MIDDLE ELSE PREFIX_LAST]]

\* the two trees hold one tag with a one-item Sequence each, and the two items
\* hold one tag with two different scalars
DifferInOneScalarOfItem0 ==
    /\ Len(dcm_l.elems) = 1 /\ Len(dcm_r.elems) = 1
    /\ dcm_l.elems[1].tag = dcm_r.elems[1].tag
    /\ LET vl == dcm_l.elems[1].value
           vr == dcm_r.elems[1].value
       IN  /\ IsSequence(vl) /\ IsSequence(vr)
           /\ Len(vl.items) = 1 /\ Len(vr.items) = 1
           /\ Len(vl.items[1].elems) = 1 /\ Len(vr.items[1].elems) = 1
           /\ vl.items[1].elems[1].tag = vr.items[1].elems[1].tag
           /\ vl.items[1].elems[1].value \in Scalars
           /\ vr.items[1].elems[1].value \in Scalars
           /\ vl.items[1].elems[1].value # vr.items[1].elems[1].value

\* C8: Header and re-stamping.  For a tag with a Sequence in both trees and an
\* index i of both whose recursive diff has k >= 1 records, the output holds
\* k+1 consecutive records: the header (Different, the tag, "[i] " +
\* description, both values "-----", the header prefix), then the k nested
\* records in their order, the last with the last-child prefix and the others
\* with the middle-child prefix.  Two trees that differ in one scalar of item
\* 0 give exactly 2 records.
C8_HeaderAndRestamping ==
    diffs.status = "returned" =>
        /\ \A t \in SequenceInBoth(dcm_l, dcm_r) : \A i \in SharedIndices(dcm_l, dcm_r, t) :
              LET recs == RecordsOf(diffs.diffs, t)
                  nested == diff(Item(dcm_l, t, i), Item(dcm_r, t, i)).diffs
                  block == HeaderAndNested(t, GetItem(dcm_l, t), i, nested)
              IN  Len(nested) >= 1 =>
                      \E p \in 1..Len(recs) :
                          /\ p + Len(nested) <= Len(recs)
                          /\ SubSeq(recs, p, p + Len(nested)) = block
                          /\ p + Len(nested) < Len(recs) =>
                                 ~IsNested(recs[p + Len(nested) + 1])
        /\ DifferInOneScalarOfItem0 => Len(diffs.diffs) = 2

\* diff returned for two sequences with an item whose recursive diff has two
\* records or more
C8_Witness ==
    /\ diffs.status = "returned"
    /\ \E t \in SequenceInBoth(dcm_l, dcm_r) : \E i \in SharedIndices(dcm_l, dcm_r, t) :
          Len(diff(Item(dcm_l, t, i), Item(dcm_r, t, i)).diffs) >= 2

(***************************************************************************)
(* C9.                                                                     *)
(***************************************************************************)
\* C9: Unequal sequence lengths.  For a tag with Sequences of lengths len_l
\* and len_r in both trees, the records without prefix of the tag are, in
\* increasing order of the index, one for every i from min(len_l, len_r) to
\* max(len_l, len_r) - 1: MissingLeft when i >= len_l, MissingRight when
\* i >= len_r, described as description + " [i]"; they close the records of
\* the tag, so that none of the items at these indices is expanded.  With
\* lengths 2 and 1 and empty items the output is one MissingRight record for
\* index 1.
C9_UnequalLengths ==
    diffs.status = "returned" =>
        \A t \in SequenceInBoth(dcm_l, dcm_r) :
            LET recs == RecordsOf(diffs.diffs, t)
                elem == GetItem(dcm_l, t)
                len_l == Len(GetItem(dcm_l, t).value.items)
                len_r == Len(GetItem(dcm_r, t).value.items)
                lo == Min(len_l, len_r)
                n == (IF len_l >= len_r THEN len_l ELSE len_r) - lo
                plain == SelectSeq(recs, LAMBDA d : d.prefix = None)
            IN  /\ Len(plain) = n
                /\ n <= Len(recs)
                /\ SubSeq(recs, Len(recs) - n + 1, Len(recs)) = plain
                /\ \A j \in 1..Len(plain) :
                      LET i == lo + j - 1
                      IN  /\ plain[j].tag = t
                          /\ plain[j].description =
                                 description(elem) \o " [" \o ToString(i) \o "]"
                          /\ i >= len_l => plain[j].diff_type = "MISSING_L"
                          /\ i >= len_r => plain[j].diff_type = "MISSING_R"
                /\ (/\ Len(dcm_l.elems) = 1 /\ Len(dcm_r.elems) = 1
                    /\ len_l = 2 /\ len_r = 1
                    /\ \A i \in 0..1 : Len(Item(dcm_l, t, i).elems) = 0
                    /\ Len(Item(dcm_r, t, 0).elems) = 0)
                   => /\ Len(diffs.diffs) = 1
                      /\ diffs.diffs[1].diff_type = "MISSING_R"
                      /\ diffs.diffs[1].description = description(elem) \o " [1]"

\* diff returned for a left sequence of 2 items and a right sequence of 1,
\* where the item only the left has is not empty
C9_Witness ==
    /\ diffs.status = "returned"
    /\ \E t \in SequenceInBoth(dcm_l, dcm_r) :
          /\ Len(GetItem(dcm_l, t).value.items) = 2
          /\ Len(GetItem(dcm_r, t).value.items) = 1
          /\ Len(Item(dcm_l, t, 1).elems) >= 1

(***************************************************************************)
(* C10.                                                                    *)
(***************************************************************************)
\* a value with the Datasets inside it in the order of their tags: == of two
\* Datasets does not look at the order of their keys
CanonicalValue(value) ==
    IF IsSequence(value)
    THEN Sequence([i \in 1..Len(value.items) |-> Canonical(value.items[i])])
    ELSE value

\* the two calls ended alike, with lists of records that are equal by ==
SameOutput(a, b) ==
    /\ a.status = b.status
    /\ a.exc = b.exc
    /\ Len(a.diffs) = Len(b.diffs)
    /\ \A k \in 1..Len(a.diffs) :
          LET d == a.diffs[k]
              e == b.diffs[k]
          IN  /\ d.diff_type = e.diff_type
              /\ d.tag = e.tag
              /\ d.description = e.description
              /\ CanonicalValue(d.value_l) = CanonicalValue(e.value_l)
              /\ CanonicalValue(d.value_r) = CanonicalValue(e.value_r)
              /\ d.prefix = e.prefix

\* C10: Tag-order determinism.  The records a call of diff emits itself are in
\* ascending order of their tags, and diff returns the same list for the same
\* two trees with their tags enumerated in another (here ascending) order.
C10_TagOrderDeterminism ==
    diffs.status # "pending" =>
        /\ LET direct == At(diffs.diffs, DirectAt(diffs.diffs))
           IN  \A j, k \in 1..Len(direct) : j < k => direct[j].tag <= direct[k].tag
        /\ SameOutput(diffs, diff(Canonical(dcm_l), Canonical(dcm_r)))

\* diff returned records for two tags of a left tree that enumerates its tags
\* in descending order
C10_Witness ==
    /\ diffs.status = "returned"
    /\ Len(dcm_l.elems) = 2
    /\ dcm_l.elems[1].tag > dcm_l.elems[2].tag
    /\ \E j, k \in DirectAt(diffs.diffs) : diffs.diffs[j].tag # diffs.diffs[k].tag

(***************************************************************************)
(* C11.                                                                    *)
(***************************************************************************)
\* the tags that hold a scalar (a value that is no Sequence) in both trees
ScalarInBoth(l, r) ==
    {t \in TagSet(l) \cap TagSet(r) :
        ~IsSequence(GetItem(l, t).value) /\ ~IsSequence(GetItem(r, t).value)}

\* C11: Scalar comparison.  For every tag that holds a scalar in both trees,
\* diff emits no record when the two values are equal and exactly one record
\* when they are unequal: DIFFERENT, without prefix, carrying the raw left and
\* the raw right value and never the placeholder.
C11_ScalarComparison ==
    diffs.status = "returned" =>
        \A t \in ScalarInBoth(dcm_l, dcm_r) :
            LET elem_l == GetItem(dcm_l, t)
                elem_r == GetItem(dcm_r, t)
                out    == RecordsOf(diffs.diffs, t)
            IN  IF elem_l.value = elem_r.value
                THEN out = <<>>
                ELSE /\ out = <<Diff("DIFFERENT", t, description(elem_l),
                                     elem_l.value, elem_r.value, None)>>
                     /\ out[1].value_l # PLACEHOLDER
                     /\ out[1].value_r # PLACEHOLDER

\* diff returned for two trees that hold equal scalars at one tag and unequal
\* scalars at another
C11_Witness ==
    /\ diffs.status = "returned"
    /\ \E t, u \in ScalarInBoth(dcm_l, dcm_r) :
          /\ GetItem(dcm_l, t).value = GetItem(dcm_r, t).value
          /\ GetItem(dcm_l, u).value # GetItem(dcm_r, u).value
          /\ Len(RecordsOf(diffs.diffs, u)) = 1

(***************************************************************************)
(* C12.                                                                    *)
(***************************************************************************)
\* the text ends with three dots
EndsWithDots(_text) ==
    Len(_text) >= 3 /\ SubSeq(_text, Len(_text) - 2, Len(_text)) = "..."

\* the text is s behind nothing but spaces
IsPadded(_text, s) ==
    /\ Len(_text) >= Len(s)
    /\ SubSeq(_text, Len(_text) - Len(s) + 1, Len(_text)) = s
    /\ \A k \in 1..(Len(_text) - Len(s)) : SubSeq(_text, k, k) = " "

\* C12: Truncation correctness.  For every string s and every width w,
\* format_str_len(s, w) is never longer than w; when s is longer than w the
\* result has exactly w characters and ends with "..."; when s has at most w
\* characters the result is s itself, padded with spaces on the left to w
\* characters, with nothing replaced by "...".
C12_TruncationCorrectness ==
    formatted # None =>
        /\ Len(formatted.s) <= arg_len
        /\ Len(arg_str) > arg_len =>
              Len(formatted.s) = arg_len /\ EndsWithDots(formatted.s)
        /\ Len(arg_str) <= arg_len =>
              Len(formatted.s) = arg_len /\ IsPadded(formatted.s, arg_str)

\* what of C12 the code does: with a width of at least 3, the result has
\* exactly w characters, is s padded when s is shorter than w, and is the
\* first w - 3 characters of s and "..." when s has w characters or more
TruncationFromWidth3 ==
    (formatted # None /\ arg_len >= 3) =>
        /\ Len(formatted.s) = arg_len
        /\ Len(arg_str) < arg_len => IsPadded(formatted.s, arg_str)
        /\ Len(arg_str) >= arg_len =>
              formatted.s = SubSeq(arg_str, 1, arg_len - 3) \o "..."

(***************************************************************************)
(* C13.                                                                    *)
(***************************************************************************)
\* the line has a tag column of len_col_tag characters behind the two of the
\* symbol and two value columns of len_col_val characters, set apart by the
\* column separators
HasColumns(line, len_col_tag, len_col_val, separator) ==
    /\ Len(line.text) = 2 + len_col_tag + 3 + len_col_val + 3 + len_col_val
    /\ SubSeq(line.text, len_col_tag + 3, len_col_tag + 5) = separator
    /\ SubSeq(line.text, len_col_tag + len_col_val + 6,
              len_col_tag + len_col_val + 8) = separator

\* main has printed everything
Printed == diffs.status = "returned" /\ Len(stdout) = 2 + Len(diffs.diffs)

\* C13: Configured widths in the CLI output.  For every pair of widths given by
\* the caller, main prints two header lines sized to those widths and then one
\* line for each record in the order of the list, and every line of a record
\* has its tag column and its two value columns in the widths the caller
\* configured, as the header has, not in the defaults 50 and 70.
C13_ConfiguredWidths ==
    Printed =>
        /\ HasColumns(stdout[1], args.len_col_tag, args.len_col_val, " | ")
        /\ HasColumns(stdout[2], args.len_col_tag, args.len_col_val, "-+-")
        /\ \A k \in 1..Len(diffs.diffs) :
              /\ stdout[k + 2].color = color_by_diff(diffs.diffs[k].diff_type)
              /\ HasColumns(stdout[k + 2], args.len_col_tag, args.len_col_val, " | ")

\* what of C13 the code does: the header in the configured widths, and the
\* lines of the records, in the order of the list, in the widths 50 and 70
RecordLinesInDefaultWidths ==
    Printed =>
        /\ HasColumns(stdout[1], args.len_col_tag, args.len_col_val, " | ")
        /\ HasColumns(stdout[2], args.len_col_tag, args.len_col_val, "-+-")
        /\ \A k \in 1..Len(diffs.diffs) :
              /\ stdout[k + 2].color = color_by_diff(diffs.diffs[k].diff_type)
              /\ HasColumns(stdout[k + 2], 50, 70, " | ")

(***************************************************************************)
(* C14.                                                                    *)
(***************************************************************************)
\* a synthesized header record: DIFFERENT with the placeholder on both sides
IsHeaderRecord(d) ==
    d.diff_type = "DIFFERENT" /\ d.value_l = PLACEHOLDER /\ d.value_r = PLACEHOLDER

\* the index of the item that the header d of the sequence of elem opens
IndexOfHeader(d, elem) ==
    CHOOSE i \in 0..(Len(elem.value.items) - 1) :
        d.description = CountedDescription(elem, i)

RECURSIVE ClaimedPrefixes(_, _, _)

\* the prefixes that C14 gives the records of diff(l, r), a call for two items
\* when inItem and the outermost call when not: PREFIX_HEADER for a header at
\* any depth; for another record of an item PREFIX_LAST when it is the last
\* record the call for its item emitted itself and PREFIX_MIDDLE when not;
\* none for another record of the outermost call
ClaimedPrefixes(l, r, inItem) ==
    LET out    == diff(l, r).diffs
        direct == DirectAt(out)
    IN  [k \in 1..Len(out) |->
            IF k \in direct
            THEN IF out[k].prefix = PREFIX_HEADER THEN PREFIX_HEADER
                 ELSE IF ~inItem THEN None
                 ELSE IF \A j \in direct : j <= k THEN PREFIX_LAST
                 ELSE PREFIX_MIDDLE
            ELSE LET h == OwnerAt(out, k)
                     t == out[h].tag
                     i == IndexOfHeader(out[h], GetItem(l, t))
                 IN  ClaimedPrefixes(Item(l, t, i), Item(r, t, i), TRUE)[k - h]]

\* the prefixes of the records of a list
PrefixesOf(out) == [k \in 1..Len(out) |-> out[k].prefix]

\* C14: Prefix meaning at every nesting depth.  In the list that the outermost
\* call of diff returns, every header record carries PREFIX_HEADER, every other
\* record nested inside a sequence item carries PREFIX_MIDDLE or PREFIX_LAST,
\* with PREFIX_LAST on exactly the last child of its item, and every record
\* that is neither nested nor a header has no prefix.
C14_PrefixMeaning ==
    diffs.status = "returned" =>
        /\ \A k \in 1..Len(diffs.diffs) :
              IsHeaderRecord(diffs.diffs[k]) => diffs.diffs[k].prefix = PREFIX_HEADER
        /\ PrefixesOf(diffs.diffs) = ClaimedPrefixes(dcm_l, dcm_r, FALSE)

\* what of C14 the code does: the prefixes are those of C14 whenever no header
\* lies inside an item, that is one level deep
PrefixMeaningOneLevelDeep ==
    (/\ diffs.status = "returned"
     /\ \A k \in 1..Len(diffs.diffs) :
           IsNested(diffs.diffs[k]) => ~IsHeaderRecord(diffs.diffs[k]))
        => PrefixesOf(diffs.diffs) = ClaimedPrefixes(dcm_l, dcm_r, FALSE)

(***************************************************************************)
(* C15.                                                                    *)
(***************************************************************************)
\* the largest number of S, 0 if there is none
Largest(S) == IF S = {} THEN 0 ELSE CHOOSE x \in S : \A y \in S : y <= x

RECURSIVE TreeDepth(_)

\* the nesting depth of a tree: 1 for a tree without items, and one more than
\* the deepest of its items else
TreeDepth(dcm) ==
    1 + Largest(UNION {{TreeDepth(dcm.elems[k].value.items[i]) :
                           i \in 1..Len(dcm.elems[k].value.items)} :
                       k \in {j \in 1..Len(dcm.elems) : IsSequence(dcm.elems[j].value)}})

RECURSIVE SharedDepth(_, _)

\* the nesting depth of what two trees share: the items at the indices that
\* both sequences of a tag have, for the tags that hold a Sequence in both
SharedDepth(l, r) ==
    1 + Largest(UNION {{SharedDepth(Item(l, t, i), Item(r, t, i)) :
                           i \in SharedIndices(l, r, t)} :
                       t \in SequenceInBoth(l, r)})

\* C15 as stated: diff ends, and its deepest chain of calls equals the maximum
\* nesting depth of the two trees
C15_AsStated ==
    diffs.status # "pending" =>
        /\ diffs.status \in {"returned", "raised"}
        /\ CallDepth(dcm_l, dcm_r) = max(TreeDepth(dcm_l), TreeDepth(dcm_r))

\* C15: Termination and recursion depth.  For all finite trees A and B,
\* diff(A, B) ends, by returning or by raising, and its deepest chain of nested
\* calls never exceeds the maximum nesting depth of the two trees, which bounds
\* the recursion; when diff returns, the chain equals the nesting depth of what
\* the two trees share.
C15_DepthOfSharedNesting ==
    diffs.status # "pending" =>
        /\ diffs.status \in {"returned", "raised"}
        /\ CallDepth(dcm_l, dcm_r) <= max(TreeDepth(dcm_l), TreeDepth(dcm_r))
        /\ diffs.status = "returned" =>
              CallDepth(dcm_l, dcm_r) = SharedDepth(dcm_l, dcm_r)

\* diff returned after calls for items, for two trees one of which is nested
\* deeper than what they share
C15_Witness ==
    /\ diffs.status = "returned"
    /\ CallDepth(dcm_l, dcm_r) >= 2
    /\ CallDepth(dcm_l, dcm_r) < max(TreeDepth(dcm_l), TreeDepth(dcm_r))

(***************************************************************************)
(* C16.                                                                    *)
(***************************************************************************)
\* description + " [i]" is the label of the record of a missing item i
SuffixedDescription(elem, i) == description(elem) \o " [" \o ToString(i) \o "]"

RECURSIVE IndexLabels(_, _, _, _)

\* the labels of the records that the items of tag t from index i on have in
\* the list of the call, each made of the index of its own item: "[i] " in
\* front for a shared item that differs, " [i]" behind for an item that one
\* sequence lacks, none for a shared item without difference
IndexLabels(l, r, t, i) ==
    LET elem_l == GetItem(l, t)
        elem_r == GetItem(r, t)
    IN  IF i >= max(Len(elem_l.value.items), Len(elem_r.value.items)) THEN <<>>
        ELSE (IF i \notin SharedIndices(l, r, t)
              THEN <<SuffixedDescription(elem_l, i)>>
              ELSE IF diff(Item(l, t, i), Item(r, t, i)).diffs = <<>>
              THEN <<>>
              ELSE <<CountedDescription(elem_l, i)>>)
             \o IndexLabels(l, r, t, i + 1)

\* the descriptions of the records that the call returning out emitted itself
\* for tag
DirectLabels(out, tag) ==
    LET direct == At(out, {k \in DirectAt(out) : out[k].tag = tag})
    IN  [k \in 1..Len(direct) |-> direct[k].description]

\* C16: Item index is not corrupted by the re-stamping loop.  For a tag with a
\* Sequence in both trees, the header of a differing item i is labelled "[i] "
\* with the index of that item, and every record for a later index j, header
\* or missing item, is labelled with its own index j, whatever the re-stamping
\* loop left in the variable i.
C16_IndexNotCorrupted ==
    diffs.status = "returned" =>
        \A t \in SequenceInBoth(dcm_l, dcm_r) :
            DirectLabels(diffs.diffs, t) = IndexLabels(dcm_l, dcm_r, t, 0)

\* diff returned a header for an item i whose nested records left another
\* number than i in the variable, and a record of a later index after it
C16_Witness ==
    /\ diffs.status = "returned"
    /\ \E t \in SequenceInBoth(dcm_l, dcm_r) : \E i \in SharedIndices(dcm_l, dcm_r, t) :
          LET _diffs == diff(Item(dcm_l, t, i), Item(dcm_r, t, i)).diffs
          IN  /\ Len(_diffs) > 0
              /\ Rebound(i, _diffs) # i
              /\ Len(IndexLabels(dcm_l, dcm_r, t, i + 1)) > 0
              /\ Len(DirectLabels(diffs.diffs, t)) >= 2

(***************************************************************************)
(* C17.                                                                    *)
(***************************************************************************)
RECURSIVE Alike(_, _)

\* the two trees have the same tags, equal scalars at every tag of a scalar,
\* and sequences of equal length whose items are alike pair by pair
Alike(l, r) ==
    /\ TagSet(l) = TagSet(r)
    /\ \A t \in TagSet(l) :
          LET value_l == GetItem(l, t).value
              value_r == GetItem(r, t).value
          IN  IF IsSequence(value_l) /\ IsSequence(value_r)
              THEN /\ Len(value_l.items) = Len(value_r.items)
                   /\ \A i \in 1..Len(value_l.items) :
                         Alike(value_l.items[i], value_r.items[i])
              ELSE value_l = value_r

\* C17: Completeness.  For two trees in which no tag holds a Sequence on one
\* side and a scalar on the other, diff returns, and it returns the empty list
\* only if the trees are alike: every difference of tags, of scalars, of the
\* length of two sequences or of two items yields at least one record.
C17_Completeness ==
    (diffs.status # "pending" /\ ~TypeMismatch(dcm_l, dcm_r)) =>
        /\ diffs.status = "returned"
        /\ diffs.diffs = <<>> => Alike(dcm_l, dcm_r)

\* diff returned records for two trees of one type at every tag, with the same
\* tags and sequences of equal length, that differ inside an item only
C17_Witness ==
    /\ diffs.status = "returned"
    /\ ~TypeMismatch(dcm_l, dcm_r)
    /\ TagSet(dcm_l) = TagSet(dcm_r)
    /\ \A t \in TagSet(dcm_l) :
          /\ t \in SequenceInBoth(dcm_l, dcm_r)
          /\ Len(GetItem(dcm_l, t).value.items) = Len(GetItem(dcm_r, t).value.items)
    /\ ~Alike(dcm_l, dcm_r)
    /\ Len(diffs.diffs) >= 1

====
